---------------------------- MODULE Spec2Model ----------------------------
(***************************************************************************)
(* Model of the client tracker (polling cloud variant, src/unnamed/part_000*)
(* with the state endpoint src/unnamed/part_001).                          *)
(*                                                                         *)
(* Representation.                                                         *)
(*   - An ISO date string "YYYY-MM-DD" is the tuple <<y, m, d>>; string    *)
(*     comparison of two such strings is the lexicographic comparison of   *)
(*     the tuples.                                                         *)
(*   - A JavaScript Date at local midnight is the number of its civil day  *)
(*     (days since 1970-01-01); every Date the engine builds is at local   *)
(*     midnight.  getTime() depends on the time zone of the browser, which *)
(*     is the variable tz.  Instants are counted in minutes (every instant *)
(*     the program reads is a whole minute), not milliseconds.             *)
(*   - A task id `rule:${id}` is <<"rule", id>>, "program:last-week" is    *)
(*     <<"program", "last-week">>.                                         *)
(*   - For the cloud sync, the document {clients, taskRules, completion,   *)
(*     messageTemplates} of a browser is the set of the local edits it     *)
(*     holds, and null is the set of the one edit <<"null", 0>>;           *)
(*     JSON.stringify of a document d is <<"json", d>>, of {} it is        *)
(*     <<"{}", {}>>, and the empty string is <<"", {}>>.  Time is          *)
(*     Date.now() in ms, advancing in steps of the greatest common divisor *)
(*     of the three delays of the page.                                    *)
(*   - A JSON value sent to the endpoint that is no document is a set of   *)
(*     one pair naming its type, such as <<"array", 0>> for []; a request  *)
(*     text that is no JSON is <<"text", {}>>.                             *)
(*   - The text of the start date input is the tuple <<y, m, d>> of the    *)
(*     numbers it spells, the empty text being <<0, 0, 0>>.                *)
(***************************************************************************)
EXTENDS Integers, Sequences, FiniteSets, TLC

VARIABLES
    tz,          \* time zone of the browser (environment of every Date)
    client,      \* engine: the client handed to the engine
    rules,       \* engine: the rule set handed to the engine
    qDate,       \* engine: the date of the last engine call
    result,      \* engine: what generateTasksForClientOnDate returned
    cweek,       \* engine: what getClientWeek returned for qDate
    program,     \* engine: [end, total] of the client's program
    clients,     \* Page: the client list
    taskRules,   \* Page: the rule set
    completion,  \* Page: the completion ledger, date -> client -> task -> done
    dateISO,     \* Page: the selected date
    search,      \* Page: the search text
    sortBy,      \* Page: the sort mode of the day view
    issued,      \* the client ids uid() has issued
    toggles,     \* number of toggleTask calls so far
    now,               \* sync: Date.now(), in ms
    store,             \* sync: the state document of the store (part_001)
    local,             \* sync: per browser, {clients, taskRules, completion, messageTemplates}
    cloudLoaded,       \* sync: per browser
    skipNextSave,      \* sync: per browser, skipNextSaveRef
    lastLocalEditAt,   \* sync: per browser, lastLocalEditAtRef
    lastCloudSnapshot, \* sync: per browser, lastCloudSnapshotRef
    saveTimer,         \* sync: per browser, when the debounced save fires
    pollTimer,         \* sync: per browser, when the next poll fires
    fetched,           \* sync: per browser, the GET response a poll awaits
    edits,             \* sync: per browser, number of local edits so far
    editedAt,          \* history: per browser, time of the last local edit
    polled,            \* history: per browser, how the last poll ended
    saveFailed,        \* history: per browser, the last save failed
    stored,            \* history: the edits the store has held
    held,              \* history: per browser, the edits local has held
    log,               \* history: per browser, the load, the edits, the applies and the PUTs
    response           \* store: the request the endpoint answered last, and its answer

engineVars == <<client, rules, qDate, result, cweek, program>>
pageVars == <<clients, taskRules, completion, dateISO, search, sortBy, issued, toggles>>
syncVars == <<now, store, local, cloudLoaded, skipNextSave, lastLocalEditAt,
              lastCloudSnapshot, saveTimer, pollTimer, fetched, edits,
              editedAt, polled, saveFailed, stored, held, log, response>>
vars == <<tz, engineVars, pageVars, syncVars>>

---------------------------------------------------------------------------
(* Calendar of the JavaScript Date object                                  *)

MinutesPerDay == 1440

\* Number of days from 1970-01-01 to the civil date y-m-d (m in 1..12):
\* the year yy counted from March, its 400-year era, the year yoe of the
\* era and the day doy of the year.
DaysFromEra(era, yoe, doy) ==
    era * 146097 + yoe * 365 + yoe \div 4 - yoe \div 100 + doy - 719468

DaysFromMarch(yy, mp, d) ==
    DaysFromEra(yy \div 400, yy % 400, (153 * mp + 2) \div 5 + d - 1)

DaysFromCivil(y, m, d) ==
    DaysFromMarch(IF m <= 2 THEN y - 1 ELSE y, IF m > 2 THEN m - 3 ELSE m + 9, d)

\* The civil date <<y, m, d>> of day number z, by the same steps backwards.
CivilOf(y, m, d) == <<IF m <= 2 THEN y + 1 ELSE y, m, d>>

CivilFromMp(y, doy, mp) ==
    CivilOf(y, IF mp < 10 THEN mp + 3 ELSE mp - 9, doy - (153 * mp + 2) \div 5 + 1)

CivilFromDoy(y, doy) == CivilFromMp(y, doy, (5 * doy + 2) \div 153)

CivilFromYoe(era, doe, yoe) ==
    CivilFromDoy(yoe + era * 400, doe - (365 * yoe + yoe \div 4 - yoe \div 100))

CivilFromDoe(era, doe) ==
    CivilFromYoe(era, doe,
                 (doe - doe \div 1460 + doe \div 36524 - doe \div 146096) \div 365)

CivilFromDays(z) == CivilFromDoe((z + 719468) \div 146097, (z + 719468) % 146097)

\* new Date(y, m0, d): m0 is zero-based; a month or day out of range is
\* carried into the next (or previous) year and month, never clamped.
NewDate(y, m0, d) == DaysFromCivil(y + m0 \div 12, (m0 % 12) + 1, 1) + d - 1

getFullYear(dt) == CivilFromDays(dt)[1]
getMonth(dt)    == CivilFromDays(dt)[2] - 1
getDate(dt)     == CivilFromDays(dt)[3]
getDay(dt)      == (dt + 4) % 7

\* d.setDate(n)
setDate(dt, n) == NewDate(getFullYear(dt), getMonth(dt), n)

\* Time zones: "UTC" has no daylight saving; "Europe/London" is UTC+0 with
\* summer time (UTC+1) from the last Sunday of March, 01:00, to the last
\* Sunday of October, 02:00.
Zones == {"UTC", "Europe/London"}

SundayOnOrBefore(dt) == dt - getDay(dt)

\* The last Sunday of month m of year y (day 0 of the next month, back to
\* its Sunday).
LastSundayOf(y, m) == SundayOnOrBefore(NewDate(y, m, 0))

InSummerTime(y, dt) == LastSundayOf(y, 3) < dt /\ dt <= LastSundayOf(y, 10)

\* Offset from UTC, in minutes, in force at local midnight of day dt.
OffsetAtMidnight(zone, dt) ==
    IF zone = "Europe/London" /\ InSummerTime(getFullYear(dt), dt) THEN 60 ELSE 0

\* d.getTime() of the Date at local midnight of day dt, in minutes.
getTime(zone, dt) == dt * MinutesPerDay - OffsetAtMidnight(zone, dt)

\* Floor division (Math.floor of a quotient with a positive divisor).
FloorDiv(a, b) == a \div b
CeilDiv(a, b) == -((-a) \div b)
Max(a, b) == IF a >= b THEN a ELSE b

---------------------------------------------------------------------------
(* Helpers of part_000                                                     *)

\* x.setHours(0, 0, 0, 0): a Date at local midnight stays where it is.
startOfDay(dt) == dt

parseISODate(iso) == NewDate(iso[1], iso[2] - 1, iso[3])

formatISODate(dt) == <<getFullYear(dt), getMonth(dt) + 1, getDate(dt)>>

daysBetween(zone, a, b) ==
    LET ms == getTime(zone, startOfDay(b)) - getTime(zone, startOfDay(a))
    IN  FloorDiv(ms, MinutesPerDay)

addDaysISO(iso, days) ==
    LET d == parseISODate(iso)
    IN  formatISODate(setDate(d, getDate(d) + days))

\* aISO < bISO on strings
isBeforeISO(a, b) ==
    \/ a[1] < b[1]
    \/ a[1] = b[1] /\ a[2] < b[2]
    \/ a[1] = b[1] /\ a[2] = b[2] /\ a[3] < b[3]

isAfterISO(a, b) == isBeforeISO(b, a)

getWeekStartISO(dISO) ==
    LET d == parseISODate(dISO)
        mondayBased == (getDay(d) + 6) % 7
    IN  formatISODate(setDate(d, getDate(d) - mondayBased))

getWeekDates(dISO) ==
    LET start == getWeekStartISO(dISO)
    IN  [i \in 1..7 |-> addDaysISO(start, i - 1)]

getClientWeek(zone, startDateISO, today) ==
    LET start == parseISODate(startDateISO)
        diffDays == daysBetween(zone, start, today)
    IN  Max(1, FloorDiv(diffDays, 7) + 1)

addMonthsToISO(startISO, months) ==
    LET dt == parseISODate(startISO)
        targetMonth == getMonth(dt) + months
        y2 == getFullYear(dt) + FloorDiv(targetMonth, 12)
        m2 == ((targetMonth % 12) + 12) % 12
    IN  formatISODate(NewDate(y2, m2, getDate(dt)))

\* Variant: the 12-week program taken as three calendar months.
getProgramEndDateISO_ThreeMonths(c) ==
    IF c.program = "6m"
      THEN addMonthsToISO(c.startDate, 6)
      ELSE addMonthsToISO(c.startDate, 3)

getProgramEndDateISO(c) ==
    IF c.program = "6m"
      THEN addMonthsToISO(c.startDate, 6)
      ELSE LET start == parseISODate(c.startDate)
           IN  formatISODate(setDate(start, getDate(start) + 7 * 12))

getProgramTotalWeeks(zone, c) ==
    LET endISO == getProgramEndDateISO(c)
        start == parseISODate(c.startDate)
        end == parseISODate(endISO)
        totalDays == Max(1, daysBetween(zone, start, end))
    IN  Max(1, CeilDiv(totalDays, 7))


---------------------------------------------------------------------------
(* Rules and the rule engine                                               *)

DEFAULT_TASK_RULES ==
    [ onboarding |-> << [id |-> "o_goodluck", day |-> 1, title |-> "Send good luck message"] >>,
      weekly     |-> << [id |-> "w1", day |-> 3, title |-> "Unofficial Mid-Week Check-in"],
                        [id |-> "w2", day |-> 5, title |-> "Send Check-in Message"],
                        [id |-> "w3", day |-> 0, title |-> "Check-in"] >>,
      week       |-> << [id |-> "wk3", week |-> 3, title |-> "Send Referral Message"] >>,
      notArray   |-> {} ]

\* A rules value as it may arrive: the three categories, and notArray, the
\* categories whose value is absent or not an array (a rules value of null
\* has all three).  Array elements are rule objects.
IsArray(rs, cat) == cat \notin rs.notArray

\* safe.x.filter(Boolean): rule objects are truthy
FilterBoolean(xs) == SelectSeq(xs, LAMBDA r : TRUE)

\* Variant: an empty list is replaced by the defaults as well.
normalizeRules_EmptyToDefault(rs) ==
    [ onboarding |-> IF IsArray(rs, "onboarding") /\ rs.onboarding # <<>>
                     THEN FilterBoolean(rs.onboarding)
                     ELSE DEFAULT_TASK_RULES.onboarding,
      weekly     |-> IF IsArray(rs, "weekly") /\ rs.weekly # <<>>
                     THEN FilterBoolean(rs.weekly)
                     ELSE DEFAULT_TASK_RULES.weekly,
      week       |-> IF IsArray(rs, "week") /\ rs.week # <<>>
                     THEN FilterBoolean(rs.week)
                     ELSE DEFAULT_TASK_RULES.week,
      notArray   |-> {} ]

normalizeRules(rs) ==
    [ onboarding |-> IF IsArray(rs, "onboarding") THEN FilterBoolean(rs.onboarding)
                     ELSE DEFAULT_TASK_RULES.onboarding,
      weekly     |-> IF IsArray(rs, "weekly") THEN FilterBoolean(rs.weekly)
                     ELSE DEFAULT_TASK_RULES.weekly,
      week       |-> IF IsArray(rs, "week") THEN FilterBoolean(rs.week)
                     ELSE DEFAULT_TASK_RULES.week,
      notArray   |-> {} ]

\* Variant: the fortnightly cadence on the odd weeks.
shouldIncludeMidWeekCheckIn_Odd(week) ==
    IF week <= 4 THEN TRUE ELSE week % 2 = 1

shouldIncludeMidWeekCheckIn(week) ==
    IF week <= 4 THEN TRUE ELSE week % 2 = 0

\* The tasks a for-loop over the rules pushes for the rules xs that pass
\* its condition.
PushEach(xs, kind) ==
    [i \in 1..Len(xs) |-> [id |-> <<"rule", xs[i].id>>, title |-> xs[i].title, kind |-> kind]]

SecondLastWeekTask ==
    [id |-> <<"program", "second-last-week">>,
     title |-> "Client is on their 2nd last week", kind |-> "program"]

LastWeekTask ==
    [id |-> <<"program", "last-week">>,
     title |-> "Client is on their LAST week", kind |-> "program"]

\* Variant: onboarding rules applied in every week.
OnboardingTasks_AnyWeek(rs, week, day) ==
    PushEach(SelectSeq(rs.onboarding, LAMBDA r : r.day = day), "onboarding")

OnboardingTasks(rs, week, day) ==
    IF week = 1
      THEN PushEach(SelectSeq(rs.onboarding, LAMBDA r : r.day = day), "onboarding")
      ELSE <<>>

WeeklyKeep(r, week, day) ==
    /\ r.day = day
    /\ (r.id = "w1" => shouldIncludeMidWeekCheckIn(week))

WeeklyTasks(rs, week, day) ==
    PushEach(SelectSeq(rs.weekly, LAMBDA r : WeeklyKeep(r, week, day)), "weekly")

\* Variant: a milestone emitted from its week on.
MilestoneTasks_Since(rs, week) ==
    PushEach(SelectSeq(rs.week, LAMBDA r : r.week <= week), "milestone")

MilestoneTasks(rs, week) ==
    PushEach(SelectSeq(rs.week, LAMBDA r : r.week = week), "milestone")

\* Variant: the second-last reminder kept in the last week.
ProgramTasks_Overlap(week, totalWeeks) ==
    (IF week >= totalWeeks - 1 /\ week <= totalWeeks THEN <<SecondLastWeekTask>> ELSE <<>>)
    \o (IF week = totalWeeks THEN <<LastWeekTask>> ELSE <<>>)

ProgramTasks(week, totalWeeks) ==
    (IF week = totalWeeks - 1 THEN <<SecondLastWeekTask>> ELSE <<>>)
    \o (IF week = totalWeeks THEN <<LastWeekTask>> ELSE <<>>)

\* Variant: the start date itself taken as before the start.
IsUpcomingOn_Inclusive(c, dISO) == ~ isBeforeISO(c.startDate, dISO)

IsUpcomingOn(c, dISO) == isBeforeISO(dISO, c.startDate)

\* Variant: nothing is generated after the last week of the program.
TasksInWeek_UntilEnd(rs, week, day, totalWeeks) ==
    [week |-> week,
     tasks |-> IF week > totalWeeks THEN <<>>
               ELSE OnboardingTasks(rs, week, day)
                    \o WeeklyTasks(rs, week, day)
                    \o MilestoneTasks(rs, week)
                    \o ProgramTasks(week, totalWeeks),
     upcoming |-> FALSE]

\* The result for a client that has started: the four loops in order.
TasksInWeek(rs, week, day, totalWeeks) ==
    [week |-> week,
     tasks |-> OnboardingTasks(rs, week, day)
               \o WeeklyTasks(rs, week, day)
               \o MilestoneTasks(rs, week)
               \o ProgramTasks(week, totalWeeks),
     upcoming |-> FALSE]

generateTasksForClientOnDate(zone, c, dISO, rs0) ==
    IF IsUpcomingOn(c, dISO)
      THEN [week |-> 0, tasks |-> <<>>, upcoming |-> TRUE]
      ELSE TasksInWeek(normalizeRules(rs0),
                       getClientWeek(zone, c.startDate, parseISODate(dISO)),
                       getDay(parseISODate(dISO)),
                       getProgramTotalWeeks(zone, c))

---------------------------------------------------------------------------
(* Cloud sync: constants and values                                        *)

POLL_MS == 2000
LOCAL_GRACE_MS == 1500
SAVE_DEBOUNCE_MS == 400

RECURSIVE GCD(_, _)
GCD(a, b) == IF b = 0 THEN a ELSE GCD(b, a % b)

\* The step of the clock.
TickMs == GCD(SAVE_DEBOUNCE_MS, GCD(POLL_MS, LOCAL_GRACE_MS))

Browsers == {"A", "B"}

\* json.state of a GET that found no row, or fetchCloudState after an error
NoState == { <<"null", 0>> }
\* No timer pending, no response awaited, no local edit yet.
NoTimer == -1
NoFetch == <<"none", {}>>
Never == -1

\* JSON.stringify(st) of a document, and of {}
Snapshot(st) == <<"json", st>>
EmptyObject == <<"{}", {}>>
\* The empty string
EmptyString == <<"", {}>>

\* The document an earlier session left in the store.
SavedBefore == { <<"before", 0>> }

\* What is recorded of a browser when on is set: how its initial fetch
\* ended ("pending", "state" or "null"), its local edits as <<time, state
\* after the edit>>, whether a poll has applied a remote state, and the
\* PUTs it issued as <<time, body>>.
NoLog ==
    [on |-> FALSE, load |-> "pending", changes |-> <<>>, applied |-> FALSE, puts |-> <<>>]
EmptyLog == [NoLog EXCEPT !.on = TRUE]

\* No request answered yet.
NoResponse == [n |-> 0, method |-> "", body |-> <<"", {}>>, status |-> 0, state |-> {}]

\* The pages of the browsers just opened, their mount effects awaiting the
\* store, which is empty.
SyncIdle ==
    /\ now = LOCAL_GRACE_MS
    /\ store = NoState
    /\ local = [b \in Browsers |-> {}]
    /\ cloudLoaded = [b \in Browsers |-> FALSE]
    /\ skipNextSave = [b \in Browsers |-> TRUE]
    /\ lastLocalEditAt = [b \in Browsers |-> 0]
    /\ lastCloudSnapshot = [b \in Browsers |-> EmptyString]
    /\ saveTimer = [b \in Browsers |-> NoTimer]
    /\ pollTimer = [b \in Browsers |-> NoTimer]
    /\ fetched = [b \in Browsers |-> NoFetch]
    /\ edits = [b \in Browsers |-> 0]
    /\ editedAt = [b \in Browsers |-> Never]
    /\ polled = [b \in Browsers |-> "never"]
    /\ saveFailed = [b \in Browsers |-> FALSE]
    /\ stored = {}
    /\ held = [b \in Browsers |-> {}]
    /\ log = [b \in Browsers |-> NoLog]
    /\ response = NoResponse

---------------------------------------------------------------------------
(* Engine specification: the pure functions on bounded inputs              *)

MaxStartOffset == 6
MaxQueryBefore == 8
MaxQueryAfter == 230
MaxRuleWeek == 3

\* Start dates: two windows of consecutive days, one up to the end of March
\* (where summer time starts), one across the end of August.
StartAnchors == { <<2024, 3, 25>>, <<2024, 8, 26>> }
StartDates == { addDaysISO(a, k) : a \in StartAnchors, k \in 0..MaxStartOffset }

Programs == {"12w", "6m"}

RuleDays == {3}

\* Week numbers of the milestone rules: the first weeks, and the week in
\* which summer time ends for a client who started at the end of March.
RuleWeeks == (1..MaxRuleWeek) \cup {31}

CustomRules(wd, n) ==
    [ onboarding |-> << [id |-> "o4", day |-> wd, title |-> "Onboarding"] >>,
      weekly     |-> << [id |-> "w1", day |-> wd, title |-> "Mid-week"],
                        [id |-> "w9", day |-> wd, title |-> "Weekly"] >>,
      week       |-> << [id |-> "wkN", week |-> n, title |-> "Milestone"] >>,
      notArray   |-> {} ]

\* A rules value of null (or {}): no category is an array.
MissingRules ==
    [ onboarding |-> <<>>, weekly |-> <<>>, week |-> <<>>,
      notArray |-> {"onboarding", "weekly", "week"} ]

\* A rules value whose weekly category is absent and whose other two
\* categories are empty lists (every rule of them deleted).
EmptiedRules ==
    [ onboarding |-> <<>>, weekly |-> <<>>, week |-> <<>>, notArray |-> {"weekly"} ]

EngineRuleSets ==
    {DEFAULT_TASK_RULES, MissingRules, EmptiedRules}
    \cup { CustomRules(wd, n) : wd \in RuleDays, n \in RuleWeeks }

NoDate == <<0, 0, 0>>
NoResult == [week |-> -1, tasks |-> <<>>, upcoming |-> FALSE]
NoProgram == [end |-> NoDate, total |-> 0]

MkClient(id, name, start, prog) ==
    [id |-> id, name |-> name, startDate |-> start, program |-> prog,
     goal |-> "fat_loss", notes |-> ""]

\* The page before anything is loaded or entered (useState defaults).
PageIdle ==
    /\ clients = <<>>
    /\ taskRules = DEFAULT_TASK_RULES
    /\ completion = <<>>
    /\ dateISO = NoDate
    /\ search = ""
    /\ sortBy = "week"
    /\ issued = {}
    /\ toggles = 0

InitEngine ==
    /\ tz \in Zones
    /\ client \in { MkClient("c1", "Ann", s, p) : s \in StartDates, p \in Programs }
    /\ rules \in EngineRuleSets
    /\ qDate = NoDate
    /\ result = NoResult
    /\ cweek = 0
    /\ program = NoProgram
    /\ PageIdle
    /\ SyncIdle

QueryDates(c) == { addDaysISO(c.startDate, k) : k \in (-MaxQueryBefore)..MaxQueryAfter }

\* One engine call per behaviour: the engine keeps no state between calls.
Generate ==
    /\ qDate = NoDate
    /\ \E d \in QueryDates(client) :
        /\ qDate' = d
        /\ result' = generateTasksForClientOnDate(tz, client, d, rules)
        /\ cweek' = getClientWeek(tz, client.startDate, parseISODate(d))
        /\ UNCHANGED <<tz, syncVars, client, rules, program, pageVars>>

ShowProgram ==
    /\ program = NoProgram
    /\ program' = [end |-> getProgramEndDateISO(client),
                   total |-> getProgramTotalWeeks(tz, client)]
    /\ UNCHANGED <<tz, syncVars, client, rules, qDate, result, cweek, pageVars>>

NextEngine == Generate \/ ShowProgram

SpecEngine == InitEngine /\ [][NextEngine]_vars

---------------------------------------------------------------------------
(* Claims about the engine (checked under SpecEngine)                      *)

Called == qDate # NoDate
Min(a, b) == IF a <= b THEN a ELSE b

\* The civil day number of an ISO date of the calendar.
DayNumber(iso) == DaysFromCivil(iso[1], iso[2], iso[3])
PlusDays(iso, k) == CivilFromDays(DayNumber(iso) + k)
DaysInMonthRef(y, m) ==
    DaysFromCivil(IF m = 12 THEN y + 1 ELSE y, IF m = 12 THEN 1 ELSE m + 1, 1)
    - DaysFromCivil(y, m, 1)

HasTask(res, id, kind) ==
    \E i \in 1..Len(res.tasks) : res.tasks[i].id = id /\ res.tasks[i].kind = kind
HasKind(res, kind) ==
    \E i \in 1..Len(res.tasks) : res.tasks[i].kind = kind
SeqRange(xs) == { xs[i] : i \in 1..Len(xs) }

\* C1: for a 6m client the program end date is the start date moved forward
\* 6 calendar months, the day-of-month clamped to the last day of the target
\* month (a start on 31 August ends on the last day of February).
C1_SixMonthEndClamped ==
    (program # NoProgram /\ client.program = "6m") =>
        LET s  == client.startDate
            t  == (s[2] - 1) + 6
            y2 == s[1] + t \div 12
            m2 == (t % 12) + 1
        IN  program.end = <<y2, m2, Min(s[3], DaysInMonthRef(y2, m2))>>

\* C2: getClientWeek(s, r) = max(1, floor(daysBetween(s, r) / 7) + 1); it is
\* 1 on the start date and on start + 6 days, 2 on start + 7 days, and 1 for
\* every reference date before the start date.
C2_ClientWeek ==
    Called =>
        LET s == client.startDate
            k == DayNumber(qDate) - DayNumber(s)
        IN  /\ cweek = Max(1, FloorDiv(daysBetween(tz, parseISODate(s), parseISODate(qDate)), 7) + 1)
            /\ (k = 0 \/ k = 6) => cweek = 1
            /\ k = 7 => cweek = 2
            /\ k < 0 => cweek = 1

\* C3: for a 12w client the program end date is the start date plus exactly
\* 84 days and the program has exactly 12 weeks.
C3_TwelveWeeks ==
    (program # NoProgram /\ client.program = "12w") =>
        /\ program.end = PlusDays(client.startDate, 84)
        /\ program.total = 12

C3_Witness ==
    /\ program # NoProgram
    /\ client.program = "12w"
    /\ tz = "Europe/London"
    /\ client.startDate = <<2024, 3, 25>>
    /\ program.end = <<2024, 6, 17>>

\* C4: an onboarding task is in the result only if the result's week is 1;
\* in week 2 or later none is emitted even when an onboarding rule's
\* day-of-week is the date's.
C4_OnboardingOnlyWeek1 ==
    Called => (HasKind(result, "onboarding") => result.week = 1)

C4_Witness ==
    /\ Called
    /\ result.week >= 2
    /\ \E r \in SeqRange(normalizeRules(rules).onboarding) :
           r.day = getDay(parseISODate(qDate))
    /\ ~ HasKind(result, "onboarding")

\* The dates, as offsets from the start date, on which the engine emits
\* the milestone task of week rule r for the client.
MilestoneOffsets(r) ==
    { k \in 0..MaxQueryAfter :
        HasTask(generateTasksForClientOnDate(tz, client, addDaysISO(client.startDate, k), rules),
                <<"rule", r.id>>, "milestone") }

WeekRules == SeqRange(normalizeRules(rules).week)

\* C5 as claimed: the milestone task of a week rule is emitted on a single
\* date, which has clientWeek = N.
C5_MilestoneSingleDate ==
    Called =>
        \A r \in WeekRules :
            HasTask(result, <<"rule", r.id>>, "milestone") =>
                /\ cweek = r.week
                /\ MilestoneOffsets(r) = { DayNumber(qDate) - DayNumber(client.startDate) }

\* C5, amended: the milestone task of a week rule with week number N is
\* emitted on every date on or after the start date whose clientWeek is N
\* and on no other date; these are 6 to 8 consecutive dates, the 7 dates
\* start + 7(N-1) .. start + 7N - 1 in a zone without daylight saving.
C5_MilestoneEveryDateOfWeekN ==
    Called =>
        \A r \in WeekRules :
            /\ HasTask(result, <<"rule", r.id>>, "milestone")
                 <=> (DayNumber(qDate) >= DayNumber(client.startDate) /\ cweek = r.week)
            /\ qDate = client.startDate =>
                 LET E == MilestoneOffsets(r)
                 IN  /\ Cardinality(E) \in 6..8
                     /\ \A a, b \in E : \A k \in a..b : k \in E
                     /\ tz = "UTC" => E = (7 * (r.week - 1))..(7 * r.week - 1)

C5_Witness ==
    /\ Called
    /\ \E r \in WeekRules :
         /\ HasTask(result, <<"rule", r.id>>, "milestone")
         /\ DayNumber(qDate) - DayNumber(client.startDate) = 7 * r.week - 1
         /\ r.week = 3

TotalWeeks == getProgramTotalWeeks(tz, client)

\* C6: program:last-week is emitted only when the client week equals the
\* program's total weeks, program:second-last-week only when it equals
\* total weeks - 1, and no result holds both.
C6_ProgramReminders ==
    Called =>
        /\ HasTask(result, <<"program", "last-week">>, "program")
             => result.week = TotalWeeks
        /\ HasTask(result, <<"program", "second-last-week">>, "program")
             => result.week = TotalWeeks - 1
        /\ ~ ( /\ HasTask(result, <<"program", "last-week">>, "program")
               /\ HasTask(result, <<"program", "second-last-week">>, "program") )

C6_Witness ==
    /\ Called
    /\ client.program = "6m"
    /\ result.week = 27
    /\ HasTask(result, <<"program", "last-week">>, "program")

\* C7: on a date on or after the start date, a weekly rule whose day-of-week
\* is the date's emits its task in every week, except the rule with id w1,
\* which emits iff the client week is <= 4 or even.
C7_WeeklyCadence ==
    (Called /\ ~ result.upcoming) =>
        \A r \in SeqRange(normalizeRules(rules).weekly) :
            LET emitted == HasTask(result, <<"rule", r.id>>, "weekly")
                dowOk == r.day = getDay(parseISODate(qDate))
            IN  /\ emitted => dowOk
                /\ (dowOk /\ r.id # "w1") => emitted
                /\ (dowOk /\ r.id = "w1") =>
                       (emitted <=> (result.week <= 4 \/ result.week % 2 = 0))

C7_Witness ==
    /\ Called
    /\ result.week = 5
    /\ HasTask(result, <<"rule", "w9">>, "weekly")
    /\ ~ HasTask(result, <<"rule", "w1">>, "weekly")

\* C8: for a date strictly before the start date the result is week 0, no
\* tasks and upcoming = TRUE whatever the rules; for a date on or after the
\* start date it has upcoming = FALSE and week >= 1.
C8_UpcomingResult ==
    Called =>
        IF DayNumber(qDate) < DayNumber(client.startDate)
          THEN result = [week |-> 0, tasks |-> <<>>, upcoming |-> TRUE]
          ELSE result.upcoming = FALSE /\ result.week >= 1

C8_Witness ==
    /\ Called
    /\ DayNumber(qDate) = DayNumber(client.startDate) - 1
    /\ \E r \in SeqRange(normalizeRules(rules).weekly) :
           r.day = getDay(parseISODate(qDate))
    /\ result.upcoming
    /\ result.tasks = <<>>

Categories == {"onboarding", "weekly", "week"}
KindOf(cat) == IF cat = "week" THEN "milestone" ELSE cat

\* The rules a rules value stands for when only an absent or non-array
\* category is replaced by the defaults.
ResolvedAbsent(rs) ==
    [ cat \in Categories \cup {"notArray"} |->
        IF cat = "notArray" THEN {}
        ELSE IF cat \in rs.notArray THEN DEFAULT_TASK_RULES[cat] ELSE rs[cat] ]

\* The rules a rules value stands for when an empty list is replaced by the
\* defaults too.
ResolvedAbsentOrEmpty(rs) ==
    [ cat \in Categories \cup {"notArray"} |->
        IF cat = "notArray" THEN {}
        ELSE IF cat \in rs.notArray \/ rs[cat] = <<>>
             THEN DEFAULT_TASK_RULES[cat] ELSE rs[cat] ]

\* C11 (as stated): a category that is absent, not an array or an empty list
\* is resolved by normalizeRules to the DEFAULT_TASK_RULES of that category,
\* and the tasks are generated from the rules so resolved.
C11_MissingOrEmptyToDefault ==
    /\ normalizeRules(rules) = ResolvedAbsentOrEmpty(rules)
    /\ Called =>
         result = generateTasksForClientOnDate(tz, client, qDate,
                                               ResolvedAbsentOrEmpty(rules))

\* C11 (amended): a category that is absent or not an array is resolved by
\* normalizeRules to the DEFAULT_TASK_RULES of that category and the tasks
\* are generated from the rules so resolved; a category that is an empty
\* list stays empty and yields no task of its kind.
C11_AbsentToDefault ==
    /\ normalizeRules(rules) = ResolvedAbsent(rules)
    /\ Called =>
         /\ result = generateTasksForClientOnDate(tz, client, qDate,
                                                  ResolvedAbsent(rules))
         /\ \A cat \in Categories :
                (IsArray(rules, cat) /\ rules[cat] = <<>>)
                    => ~HasKind(result, KindOf(cat))

\* A first-week Monday with the weekly category absent and the onboarding
\* list emptied: the default weekly rules apply on the Friday of that week,
\* the default onboarding rule of Monday does not.
C11_Witness ==
    /\ Called
    /\ rules = EmptiedRules
    /\ result.week = 1
    /\ getDay(parseISODate(qDate)) = 1
    /\ result.tasks = <<>>
    /\ normalizeRules(rules).weekly = DEFAULT_TASK_RULES.weekly

\* C16: for a 12-week client whose start date is a Monday and the default
\* rules, the task list of the Wednesday of the first week (start + 2 days)
\* has week 1 and holds both an onboarding task and the weekly task rule:w1.
C16_WednesdayOfWeekOne ==
    ( /\ Called
      /\ client.program = "12w"
      /\ (DayNumber(client.startDate) + 4) % 7 = 1
      /\ rules = DEFAULT_TASK_RULES
      /\ qDate = PlusDays(client.startDate, 2) )
    => /\ result.week = 1
       /\ HasKind(result, "onboarding")
       /\ HasTask(result, <<"rule", "w1">>, "weekly")

---------------------------------------------------------------------------
(* The page: state, derived data and operations                            *)

OVERDUE_LOOKBACK_DAYS == 30

\* a.localeCompare(b) on ISO date strings
CompareISO(a, b) == IF isBeforeISO(a, b) THEN -1 ELSE IF a = b THEN 0 ELSE 1

\* a.localeCompare(b) on the client names of the model
NamePool == <<"Ann", "Bob">>
NameRank(n) == CHOOSE i \in 1..Len(NamePool) : NamePool[i] = n
CompareName(a, b) == NameRank(a) - NameRank(b)

\* name.includes(q) / notes.includes(q) for the lower-cased texts of the model
Includes(text, q) ==
    \/ q = ""
    \/ <<text, q>> \in { <<"Ann", "an">>, <<"Bob", "bo">> }

\* !!completion?.[dateKey]?.[clientId]?.[taskId] on a ledger
CheckedIn(ledger, dateKey, clientId, taskId) ==
    /\ dateKey \in DOMAIN ledger
    /\ clientId \in DOMAIN ledger[dateKey]
    /\ taskId \in DOMAIN ledger[dateKey][clientId]
    /\ ledger[dateKey][clientId][taskId]

isChecked(dateKey, clientId, taskId) == CheckedIn(completion, dateKey, clientId, taskId)

\* obj[k] = v on a copy of obj
Put(obj, k, v) == [x \in (DOMAIN obj) \cup {k} |-> IF x = k THEN v ELSE obj[x]]
\* obj[k] || {}
GetOrEmpty(obj, k) == IF k \in DOMAIN obj THEN obj[k] ELSE <<>>

\* Variant: the toggle always ticks.
toggleTaskOn_Set(prev, dateKey, clientId, taskId) ==
    LET dateObj == GetOrEmpty(prev, dateKey)
        clientObj == GetOrEmpty(dateObj, clientId)
    IN  Put(prev, dateKey, Put(dateObj, clientId, Put(clientObj, taskId, TRUE)))

\* The updater of toggleTask applied to the ledger prev.
toggleTaskOn(prev, dateKey, clientId, taskId) ==
    LET dateObj == GetOrEmpty(prev, dateKey)
        clientObj == GetOrEmpty(dateObj, clientId)
        old == taskId \in DOMAIN clientObj /\ clientObj[taskId]
    IN  Put(prev, dateKey, Put(dateObj, clientId, Put(clientObj, taskId, ~ old)))

RECURSIVE CountIncomplete(_, _)
CountIncomplete(clientId, tasks) ==
    IF tasks = <<>> THEN 0
    ELSE (IF isChecked(dateISO, clientId, Head(tasks).id) THEN 0 ELSE 1)
         + CountIncomplete(clientId, Tail(tasks))

countIncompleteDay(clientId, tasks) == CountIncomplete(clientId, tasks)

RowCompare(a, b) ==
    IF sortBy = "name" THEN CompareName(a.client.name, b.client.name)
    ELSE IF sortBy = "start" THEN CompareISO(a.client.startDate, b.client.startDate)
    ELSE IF sortBy = "incomplete"
      THEN LET ai == countIncompleteDay(a.client.id, a.day.tasks)
               bi == countIncompleteDay(b.client.id, b.day.tasks)
           IN  IF bi # ai THEN bi - ai ELSE CompareName(a.client.name, b.client.name)
    ELSE IF a.day.week # b.day.week THEN a.day.week - b.day.week
    ELSE CompareName(a.client.name, b.client.name)

OverdueCompare(a, b) ==
    IF a.dateISO # b.dateISO THEN CompareISO(a.dateISO, b.dateISO)
    ELSE CompareName(a.client.name, b.client.name)

\* The comparator of each sort call of the page.
Compare(by, a, b) ==
    CASE by = "activeClients" -> CompareName(a.name, b.name)
      [] by = "upcomingClients" -> CompareISO(a.startDate, b.startDate)
      [] by = "sortedRows" -> RowCompare(a, b)
      [] by = "overdue" -> OverdueCompare(a, b)

\* Array.prototype.sort(cmp), which is stable: each element in turn goes
\* in front of the first element it compares before.  SortStable sorts the
\* first n elements of xs.
\* Variant: a sort that is not stable (an element goes in front of the
\* elements it compares equal to).
RECURSIVE InsertInto_Unstable(_, _, _)
InsertInto_Unstable(sorted, by, x) ==
    IF sorted = <<>> THEN <<x>>
    ELSE IF Compare(by, x, Head(sorted)) <= 0 THEN <<x>> \o sorted
    ELSE <<Head(sorted)>> \o InsertInto_Unstable(Tail(sorted), by, x)

RECURSIVE InsertInto(_, _, _)
InsertInto(sorted, by, x) ==
    IF sorted = <<>> THEN <<x>>
    ELSE IF Compare(by, x, Head(sorted)) < 0 THEN <<x>> \o sorted
    ELSE <<Head(sorted)>> \o InsertInto(Tail(sorted), by, x)

RECURSIVE SortStable(_, _, _)
SortStable(xs, by, n) ==
    IF n = 0 THEN <<>>
    ELSE InsertInto(SortStable(xs, by, n - 1), by, xs[n])

Sort(xs, by) == SortStable(xs, by, Len(xs))

\* Variant: only the clients who started before the selected date.
activeClients_Strict ==
    IF dateISO = NoDate THEN <<>>
    ELSE Sort(SelectSeq(clients, LAMBDA c : isBeforeISO(c.startDate, dateISO)),
              "activeClients")

activeClients ==
    IF dateISO = NoDate THEN <<>>
    ELSE Sort(SelectSeq(clients, LAMBDA c : ~ isAfterISO(c.startDate, dateISO)),
              "activeClients")

upcomingClients ==
    IF dateISO = NoDate THEN <<>>
    ELSE Sort(SelectSeq(clients, LAMBDA c : isAfterISO(c.startDate, dateISO)),
              "upcomingClients")

\* A row of the day view (its week view is not modelled).
Row(c) == [client |-> c, day |-> generateTasksForClientOnDate(tz, c, dateISO, taskRules)]

RowsOf(cs) == [i \in 1..Len(cs) |-> Row(cs[i])]

baseRows == RowsOf(activeClients)

\* Variant: the search text is not applied.
Searched_All(rows, q) == rows

Searched(rows, q) ==
    IF q = "" THEN rows
    ELSE SelectSeq(rows, LAMBDA row :
             Includes(row.client.name, q) \/ Includes(row.client.notes, q))

searchedRows == Searched(baseRows, search)

sortedRows == Sort(searchedRows, "sortedRows")

\* The entries overdue pushes for client c on the date dISO: one per task
\* of that date that the ledger does not hold ticked.
OverdueEntries(c, dISO, week, unticked) ==
    [k \in 1..Len(unticked) |->
        [client |-> c, dateISO |-> dISO, week |-> week, task |-> unticked[k]]]

OverdueOfDay(ledger, c, dISO, g) ==
    OverdueEntries(c, dISO, g.week,
                   SelectSeq(g.tasks, LAMBDA t : ~ CheckedIn(ledger, dISO, c.id, t.id)))

OverdueOnDate(ledger, c, dISO) ==
    IF isBeforeISO(dISO, c.startDate) THEN <<>>
    ELSE OverdueOfDay(ledger, c, dISO,
                      generateTasksForClientOnDate(tz, c, dISO, taskRules))

\* The inner loop of overdue for client c on the day i days before the
\* selected date, read against the given ledger.
OverdueOn(ledger, c, i) == OverdueOnDate(ledger, c, addDaysISO(dateISO, -i))

\* The lookback loop from day i to day last: the entries of each day in
\* turn (the range is split in two to keep the evaluation shallow).
RECURSIVE OverdueDays(_, _, _, _)
OverdueDays(ledger, c, i, last) ==
    IF i > last THEN <<>>
    ELSE IF i = last THEN OverdueOn(ledger, c, i)
    ELSE OverdueDays(ledger, c, i, (i + last) \div 2)
         \o OverdueDays(ledger, c, (i + last) \div 2 + 1, last)

\* Variant: the lookback starting at the selected date itself.
OverdueOfClient_FromToday(ledger, c) == OverdueDays(ledger, c, 0, OVERDUE_LOOKBACK_DAYS)

OverdueOfClient(ledger, c) == OverdueDays(ledger, c, 1, OVERDUE_LOOKBACK_DAYS)

RECURSIVE OverdueRows(_, _)
OverdueRows(ledger, rows) ==
    IF rows = <<>> THEN <<>>
    ELSE OverdueOfClient(ledger, Head(rows).client) \o OverdueRows(ledger, Tail(rows))

\* The overdue list as the memo computes it from a ledger value.
OverdueList(ledger) ==
    Sort(OverdueRows(ledger, sortedRows), "overdue")

overdue == OverdueList(completion)

\* The alerts programAlerts pushes for one row.
AlertsOfRow(row) ==
    (IF row.day.week = getProgramTotalWeeks(tz, row.client) - 1
       THEN << [client |-> row.client, label |-> "secondLast"] >> ELSE <<>>)
    \o (IF row.day.week = getProgramTotalWeeks(tz, row.client)
          THEN << [client |-> row.client, label |-> "last"] >> ELSE <<>>)

RECURSIVE AlertsOf(_)
AlertsOf(rows) ==
    IF rows = <<>> THEN <<>> ELSE AlertsOfRow(Head(rows)) \o AlertsOf(Tail(rows))

programAlerts == AlertsOf(sortedRows)

\* Variant: the entries are ticked under the selected date.
RECURSIVE markAllOverdueDoneOn_Today(_, _)
markAllOverdueDoneOn_Today(prev, od) ==
    IF od = <<>> THEN prev
    ELSE markAllOverdueDoneOn_Today(
             toggleTaskOn_Set(prev, dateISO, Head(od).client.id, Head(od).task.id),
             Tail(od))

\* The updater of markAllOverdueDone applied to the ledger prev: the loop
\* over the overdue list od, each entry set to true under its own date.
RECURSIVE markAllOverdueDoneOn(_, _)
markAllOverdueDoneOn(prev, od) ==
    IF od = <<>> THEN prev
    ELSE markAllOverdueDoneOn(
             LET o == Head(od)
                 dateObj == GetOrEmpty(prev, o.dateISO)
                 clientObj == GetOrEmpty(dateObj, o.client.id)
             IN  Put(prev, o.dateISO, Put(dateObj, o.client.id, Put(clientObj, o.task.id, TRUE))),
             Tail(od))

\* newName.trim() on the names typed into the form of the model
Trim(text) ==
    CASE text = " Ann " -> "Ann"
      [] text = "  " -> ""
      [] OTHER -> text

\* /^\d{4}-\d{2}-\d{2}$/.test(newStart): <<y, m, d>> is the text y-m-d with
\* y, m and d padded to 4, 2 and 2 digits, and NoDate is the empty text.
MatchesISO(newStart) ==
    /\ newStart # NoDate
    /\ newStart[1] \in 0..9999
    /\ newStart[2] \in 0..99
    /\ newStart[3] \in 0..99

\* newGoal: the fourth field of a form, "fat_loss" when the select is left alone
FormGoal(form) == IF Len(form) >= 4 THEN form[4] ELSE "fat_loss"

\* Variant: the name is not looked at.
addClientTo_AnyName(prev, id, form) ==
    IF ~ MatchesISO(form[2]) THEN prev
    ELSE Append(prev, [MkClient(id, Trim(form[1]), form[2], form[3])
                           EXCEPT !.goal = FormGoal(form)])

\* addClient on the client list prev, the form holding
\* <<newName, newStart, newProgram>> or <<newName, newStart, newProgram, newGoal>>.
addClientTo(prev, id, form) ==
    IF Trim(form[1]) = "" THEN prev
    ELSE IF ~ MatchesISO(form[2]) THEN prev
    ELSE Append(prev, [MkClient(id, Trim(form[1]), form[2], form[3])
                           EXCEPT !.goal = FormGoal(form)])

\* The task id prestart:x is <<"prestart", x>>, as rule:x is <<"rule", x>>.
UPCOMING_TASKS ==
    << [id |-> <<"prestart", "direct-debit">>, title |-> "Set up direct debit"],
       [id |-> <<"prestart", "meal-plan">>, title |-> "Send meal plan"],
       [id |-> <<"prestart", "training-plan">>, title |-> "Assign training plan"],
       [id |-> <<"prestart", "confirm-ready">>, title |-> "Confirm ready to start"] >>

\* Variant: the checklist is kept under the selected date.
upcomingKey_Dated(clientId) == dateISO

\* `upcoming:${clientId}`: a ledger key that is no ISO date
upcomingKey(clientId) == <<"upcoming", clientId>>

isUpcomingDone(clientId, upcomingTaskId) ==
    CheckedIn(completion, upcomingKey(clientId), clientId, upcomingTaskId)

\* progress over the rows, read from the ledger: the tasks of the rows and
\* how many of them are ticked for the selected date.
RECURSIVE CountDone(_, _, _)
CountDone(ledger, clientId, tasks) ==
    IF tasks = <<>> THEN 0
    ELSE (IF CheckedIn(ledger, dateISO, clientId, Head(tasks).id) THEN 1 ELSE 0)
         + CountDone(ledger, clientId, Tail(tasks))

RECURSIVE ProgressOf(_, _)
ProgressOf(ledger, rows) ==
    IF rows = <<>> THEN [total |-> 0, done |-> 0]
    ELSE [total |-> Len(Head(rows).day.tasks) + ProgressOf(ledger, Tail(rows)).total,
          done  |-> CountDone(ledger, Head(rows).client.id, Head(rows).day.tasks)
                    + ProgressOf(ledger, Tail(rows)).done]

progress == ProgressOf(completion, sortedRows)

\* Variant: the filter keeps the rule and drops the others.
deleteRuleOn_Inverted(prev, type, id) ==
    [ normalizeRules(prev) EXCEPT
        ![type] = SelectSeq(normalizeRules(prev)[type], LAMBDA r : r.id = id) ]

\* The updater of deleteRule applied to the rules prev.
deleteRuleOn(prev, type, id) ==
    [ normalizeRules(prev) EXCEPT
        ![type] = SelectSeq(normalizeRules(prev)[type], LAMBDA r : r.id # id) ]

---------------------------------------------------------------------------
(* Page specification                                                      *)

MaxToggles == 2

\* new Date() at mount
Today == <<2024, 4, 10>>

\* The dates the date input is set to.
ViewDates == { Today, addDaysISO(Today, 1) }

\* What the add-client form is submitted with, each once:
\* <<name, start date, program>>.
ClientInputs ==
    << <<"Ann", addDaysISO(Today, -33), "12w">>,
       <<"Bob", addDaysISO(Today, -10), "6m">>,
       <<"Bob", addDaysISO(Today, 1), "12w">> >>

SearchTerms == {"", "an"}

\* uid(): a fresh id, here that of the n-th form
Uid(n) == <<"c", n>>

EngineIdle ==
    /\ client = MkClient(<<"c", 0>>, "", NoDate, "12w")
    /\ rules = DEFAULT_TASK_RULES
    /\ qDate = NoDate
    /\ result = NoResult
    /\ cweek = 0
    /\ program = NoProgram

\* The time zone of the browser the page runs in: one with daylight saving
\* (its winter dates behave as those of a zone without).
BrowserZone == "Europe/London"

\* The page after mount, the store holding no state.
Init ==
    /\ tz = BrowserZone
    /\ EngineIdle
    /\ clients = <<>>
    /\ taskRules = DEFAULT_TASK_RULES
    /\ completion = <<>>
    /\ dateISO = Today
    /\ search = ""
    /\ sortBy = "week"
    /\ issued = {}
    /\ toggles = 0
    /\ SyncIdle

\* addClient with the n-th of the forms, for an n of ns.
addClientOf(forms, ns) ==
    \E n \in ns :
        /\ clients' = addClientTo(clients, Uid(n), forms[n])
        /\ issued' = issued \cup {n}
        /\ UNCHANGED <<tz, syncVars, engineVars, taskRules, completion, dateISO, search, sortBy, toggles>>

addClient == addClientOf(ClientInputs, (DOMAIN ClientInputs) \ issued)

removeClient ==
    \E i \in 1..Len(clients) :
        /\ clients' = SelectSeq(clients, LAMBDA c : c.id # clients[i].id)
        /\ UNCHANGED <<tz, syncVars, engineVars, taskRules, completion, dateISO, search, sortBy, issued, toggles>>

\* The date input set to one of dates.
setDateISOIn(dates) ==
    \E d \in dates :
        /\ d # dateISO
        /\ dateISO' = d
        /\ UNCHANGED <<tz, syncVars, engineVars, clients, taskRules, completion, search, sortBy, issued, toggles>>

setDateISO == setDateISOIn(ViewDates)

setSearch ==
    \E q \in SearchTerms :
        /\ q # search
        /\ search' = q
        /\ UNCHANGED <<tz, syncVars, engineVars, clients, taskRules, completion, dateISO, sortBy, issued, toggles>>

\* The keys <<dateKey, clientId, taskId>> of the checkboxes on the page:
\* the tasks of the day view and the entries of the overdue list.
KeysOfRow(row) ==
    { <<dateISO, row.client.id, row.day.tasks[k].id>> : k \in 1..Len(row.day.tasks) }

KeysOfRows(rows) == UNION { KeysOfRow(rows[i]) : i \in 1..Len(rows) }

DayViewKeys == KeysOfRows(sortedRows)

KeyOf(o) == <<o.dateISO, o.client.id, o.task.id>>

KeysOf(od) == { KeyOf(od[i]) : i \in 1..Len(od) }

OverdueKeys == KeysOf(overdue)

\* The checkboxes the model clicks: those of the day view and of the first
\* entry of the overdue list.
Picked(od) == SubSeq(od, 1, IF od = <<>> THEN 0 ELSE 1)

ToggleInputs == DayViewKeys \cup KeysOf(Picked(overdue))

\* toggleTask for one of the checkboxes keys, the max-th click at most.
toggleTaskIn(keys, max) ==
    /\ toggles < max
    /\ \E key \in keys :
          completion' = toggleTaskOn(completion, key[1], key[2], key[3])
    /\ toggles' = toggles + 1
    /\ UNCHANGED <<tz, syncVars, engineVars, clients, taskRules, dateISO, search, sortBy, issued>>

toggleTask == toggleTaskIn(ToggleInputs, MaxToggles)

Next == addClient \/ removeClient \/ setDateISO \/ setSearch \/ toggleTask

Spec == Init /\ [][Next]_vars

---------------------------------------------------------------------------
(* Day view specification: sorting, the pre-start checklist and the rules  *)
(* editor, on clients who tie on start date and week                       *)

MaxEdits == 2

\* The add-client form is submitted with these, in this order: two clients
\* of the same start date, the later name first, and two who start later.
RosterInputs ==
    << <<"Bob", addDaysISO(Today, -10), "12w">>,
       <<"Ann", addDaysISO(Today, -10), "12w">>,
       <<"Bob", addDaysISO(Today, 1), "12w">>,
       <<"Ann", addDaysISO(Today, 1), "6m">> >>

\* The dates the date input is set to: today and the Wednesday before.
RosterDates == { Today, addDaysISO(Today, -7) }

SortModes == {"name", "week", "start", "incomplete"}

\* The checklist items the model clicks.
UpcomingInputs == { UPCOMING_TASKS[1].id, UPCOMING_TASKS[2].id }

addClientInOrder ==
    addClientOf(RosterInputs, {Cardinality(issued) + 1} \cap DOMAIN RosterInputs)

setDateISOOfRoster == setDateISOIn(RosterDates)

setSortBy ==
    \E m \in SortModes :
        /\ m # sortBy
        /\ sortBy' = m
        /\ UNCHANGED <<tz, syncVars, engineVars, clients, taskRules, completion, dateISO, search, issued, toggles>>

toggleDayTask == toggleTaskIn(DayViewKeys, MaxEdits)

\* The checklist is shown for the upcoming clients.
toggleUpcomingTask ==
    /\ toggles < MaxEdits
    /\ \E i \in 1..Len(upcomingClients), t \in UpcomingInputs :
          completion' = toggleTaskOn(completion, upcomingKey(upcomingClients[i].id),
                                     upcomingClients[i].id, t)
    /\ toggles' = toggles + 1
    /\ UNCHANGED <<tz, syncVars, engineVars, clients, taskRules, dateISO, search, sortBy, issued>>

\* The delete button of a rule listed in the rules editor.
deleteRule ==
    /\ toggles < MaxEdits
    /\ \E type \in {"onboarding", "weekly", "week"} :
          \E i \in 1..Len(taskRules[type]) :
              taskRules' = deleteRuleOn(taskRules, type, taskRules[type][i].id)
    /\ toggles' = toggles + 1
    /\ UNCHANGED <<tz, syncVars, engineVars, clients, completion, dateISO, search, sortBy, issued>>

NextView ==
    \/ addClientInOrder
    \/ setDateISOOfRoster
    \/ setSortBy
    \/ toggleDayTask
    \/ toggleUpcomingTask
    \/ deleteRule

SpecView == Init /\ [][NextView]_vars

---------------------------------------------------------------------------
(* Overdue specification: the add-client form with texts it turns down,    *)
(* the search box and the button that ticks the whole overdue list         *)

MaxClicks == 2

\* The add-client form is submitted with these, in this order: a client in
\* week 5, a blank name, a client in the second last week of the program, a
\* start date with a five-digit year, and a padded name for the next day.
OverdueInputs ==
    << <<"Ann", addDaysISO(Today, -33), "12w">>,
       <<"  ", addDaysISO(Today, -10), "12w">>,
       <<"Bob", addDaysISO(Today, -75), "12w", "muscle_gain">>,
       <<"Bob", <<12024, 4, 10>>, "6m">>,
       <<" Ann ", addDaysISO(Today, 1), "6m", "muscle_gain">> >>

submitInOrder ==
    addClientOf(OverdueInputs, {Cardinality(issued) + 1} \cap DOMAIN OverdueInputs)

clickTask == toggleTaskIn(ToggleInputs, MaxClicks)

\* The button "mark all overdue done", the MaxClicks-th click at most; it
\* changes nothing when the list is empty.
markAllOverdueDone ==
    /\ toggles < MaxClicks
    /\ completion' = IF Len(overdue) = 0 THEN completion
                     ELSE markAllOverdueDoneOn(completion, overdue)
    /\ toggles' = toggles + 1
    /\ UNCHANGED <<tz, syncVars, engineVars, clients, taskRules, dateISO, search, sortBy, issued>>

NextOverdue ==
    \/ submitInOrder
    \/ setDateISO
    \/ setSearch
    \/ clickTask
    \/ markAllOverdueDone

SpecOverdue == Init /\ [][NextOverdue]_vars

---------------------------------------------------------------------------
(* Cloud sync specification: two browsers on one store                     *)

MaxClockMs == 3600
MaxLocalEdits == 1

\* Variant: the PUT merges the body into the stored document.
Upsert_Merge(cur, body) == IF cur = NoState THEN body ELSE cur \cup body

\* PUT /api/state: the row's state becomes the body.
Upsert(cur, body) == body

\* Variant: no grace period.
WithinGrace_Never(t, last) == FALSE

\* msSinceLocalEdit < LOCAL_GRACE_MS
WithinGrace(t, last) == t - last < LOCAL_GRACE_MS

\* Variant: a remote apply leaves the flag as it is.
SkipAfterApply_Unset(skip) == skip

\* skipNextSaveRef.current = true, before a remote state is applied
SkipAfterApply(skip) == TRUE

\* The auto-save effect of browser b, run after a render that changed the
\* state or cloudLoaded: loaded is cloudLoaded, applying is
\* applyingRemoteRef and skip is skipNextSaveRef when the effect runs.  Its
\* cleanup clears the timer of the run before.
RunEffect(b, loaded, applying, skip) ==
    /\ lastLocalEditAt' =
          [lastLocalEditAt EXCEPT ![b] = IF loaded /\ ~ applying THEN now ELSE @]
    /\ skipNextSave' = [skipNextSave EXCEPT ![b] = IF loaded THEN FALSE ELSE skip]
    /\ saveTimer' =
          [saveTimer EXCEPT ![b] = IF loaded /\ ~ skip THEN now + SAVE_DEBOUNCE_MS
                                   ELSE NoTimer]

\* What a GET /api/state answers: the stored state.
Responses == {store}

\* What fetchCloudState returns to the mount effect: json.state, or null
\* when the request failed.
LoadResponses == {store, NoState}

\* The mount effect of browser b, at the time its fetch returns one of
\* the given results.
LoadFrom(b, results) ==
    /\ ~ cloudLoaded[b]
    /\ \E st \in results :
          /\ log' = [log EXCEPT ![b].load =
                                   IF ~ log[b].on THEN @
                                   ELSE IF st # NoState THEN "state" ELSE "null"]
          /\ local' = [local EXCEPT ![b] = IF st # NoState THEN st ELSE @]
          /\ lastCloudSnapshot' =
                [lastCloudSnapshot EXCEPT
                   ![b] = IF st # NoState THEN Snapshot(st) ELSE EmptyObject]
          /\ held' = [held EXCEPT ![b] = IF st # NoState THEN @ \cup st ELSE @]
    /\ cloudLoaded' = [cloudLoaded EXCEPT ![b] = TRUE]
    /\ RunEffect(b, TRUE, FALSE, TRUE)
    /\ pollTimer' = [pollTimer EXCEPT ![b] = now]
    /\ UNCHANGED <<tz, engineVars, pageVars, now, store, fetched, edits, editedAt,
                   polled, saveFailed, stored, response>>

\* The mount effect of browser b, its GET answered.
Load(b) == LoadFrom(b, Responses)

\* A change the user of browser b makes to the state (a client added, a
\* task ticked, a rule or template edited): the k-th edit of b is <<b, k>>,
\* and b makes max edits at most.
LocalEditUpTo(b, max) ==
    /\ edits[b] < max
    /\ local' = [local EXCEPT ![b] = @ \cup { <<b, edits[b] + 1>> }]
    /\ held' = [held EXCEPT ![b] = @ \cup { <<b, edits[b] + 1>> }]
    /\ edits' = [edits EXCEPT ![b] = @ + 1]
    /\ editedAt' = [editedAt EXCEPT ![b] = now]
    /\ log' = [log EXCEPT ![b].changes =
                              IF ~ log[b].on THEN @
                              ELSE Append(@, <<now, local[b] \cup { <<b, edits[b] + 1>> }>>)]
    /\ RunEffect(b, cloudLoaded[b], FALSE, skipNextSave[b])
    /\ UNCHANGED <<tz, engineVars, pageVars, now, store, cloudLoaded, lastCloudSnapshot,
                   pollTimer, fetched, polled, saveFailed, stored, response>>

LocalEdit(b) == LocalEditUpTo(b, MaxLocalEdits)

\* The debounce timer of browser b fires: the snapshot marker is set and
\* the state is PUT; the PUT succeeds or fails (the failure is logged).
Save(b) ==
    /\ saveTimer[b] = now
    /\ lastCloudSnapshot' = [lastCloudSnapshot EXCEPT ![b] = Snapshot(local[b])]
    /\ saveTimer' = [saveTimer EXCEPT ![b] = NoTimer]
    /\ log' = [log EXCEPT ![b].puts =
                              IF ~ log[b].on THEN @ ELSE Append(@, <<now, local[b]>>)]
    /\ \E ok \in BOOLEAN :
          /\ store' = IF ok THEN Upsert(store, local[b]) ELSE store
          /\ stored' = IF ok THEN stored \cup Upsert(store, local[b]) ELSE stored
          /\ saveFailed' = [saveFailed EXCEPT ![b] = ~ ok]
    /\ UNCHANGED <<tz, engineVars, pageVars, now, local, cloudLoaded, skipNextSave,
                   lastLocalEditAt, pollTimer, fetched, edits, editedAt, polled, held,
                   response>>

\* The interval of browser b fires: poll sends its GET, which the store
\* answers.
PollFetch(b) ==
    /\ cloudLoaded[b]
    /\ pollTimer[b] = now
    /\ fetched[b] = NoFetch
    /\ \E st \in Responses : fetched' = [fetched EXCEPT ![b] = Snapshot(st)]
    /\ pollTimer' = [pollTimer EXCEPT ![b] = now + POLL_MS]
    /\ UNCHANGED <<tz, engineVars, pageVars, now, store, local, cloudLoaded, skipNextSave,
                   lastLocalEditAt, lastCloudSnapshot, saveTimer, edits, editedAt,
                   polled, saveFailed, stored, held, log, response>>

\* How poll ends for the response st, the marker last and the time t:
\* before it applies anything.
PollOutcome(st, last, t, lastEdit) ==
    IF st = NoState THEN "empty"
    ELSE IF last = EmptyString THEN "seeded"
    ELSE IF Snapshot(st) = last THEN "same"
    ELSE IF WithinGrace(t, lastEdit) THEN "grace"
    ELSE "applied"

\* poll of browser b continues after its await.  When it applies the
\* remote state, the effect of the render that follows runs before or
\* after the timeout that resets applyingRemoteRef.
PollReturn(b) ==
    /\ fetched[b] # NoFetch
    /\ fetched' = [fetched EXCEPT ![b] = NoFetch]
    /\ LET st == fetched[b][2]
           outcome == PollOutcome(st, lastCloudSnapshot[b], now, lastLocalEditAt[b])
       IN  /\ polled' = [polled EXCEPT ![b] = outcome]
           /\ log' = [log EXCEPT ![b].applied = @ \/ (log[b].on /\ outcome = "applied")]
           /\ IF outcome = "applied"
                THEN /\ local' = [local EXCEPT ![b] = st]
                     /\ held' = [held EXCEPT ![b] = @ \cup st]
                     /\ lastCloudSnapshot' = [lastCloudSnapshot EXCEPT ![b] = Snapshot(st)]
                     /\ \E applying \in BOOLEAN :
                           RunEffect(b, TRUE, applying, SkipAfterApply(skipNextSave[b]))
                ELSE /\ lastCloudSnapshot' =
                           [lastCloudSnapshot EXCEPT
                              ![b] = IF outcome = "seeded" THEN Snapshot(st) ELSE @]
                     /\ UNCHANGED <<local, held, lastLocalEditAt, skipNextSave, saveTimer>>
    /\ UNCHANGED <<tz, engineVars, pageVars, now, store, cloudLoaded, pollTimer, edits,
                   editedAt, saveFailed, stored, response>>

\* Time passes: no timer is due and no response is awaited (a GET, that of
\* the mount effect included, is answered within one step of the clock).
Tick ==
    /\ now + TickMs <= MaxClockMs
    /\ \A b \in Browsers :
          /\ saveTimer[b] # now
          /\ pollTimer[b] # now
          /\ fetched[b] = NoFetch
          /\ cloudLoaded[b]
    /\ now' = now + TickMs
    /\ UNCHANGED <<tz, engineVars, pageVars, store, local, cloudLoaded, skipNextSave,
                   lastLocalEditAt, lastCloudSnapshot, saveTimer, pollTimer, fetched,
                   edits, editedAt, polled, saveFailed, stored, held, log, response>>

NextSync ==
    \/ \E b \in Browsers : Load(b)
    \/ \E b \in Browsers : LocalEdit(b)
    \/ \E b \in Browsers : Save(b)
    \/ \E b \in Browsers : PollFetch(b)
    \/ \E b \in Browsers : PollReturn(b)
    \/ Tick

\* The store is empty or holds the document of an earlier session; every
\* browser starts with the record l.
InitSyncWith(l) ==
    /\ tz = BrowserZone
    /\ EngineIdle
    /\ PageIdle
    /\ store \in {NoState, SavedBefore}
    /\ stored = (IF store = NoState THEN {} ELSE store)
    /\ now = LOCAL_GRACE_MS
    /\ local = [b \in Browsers |-> {}]
    /\ cloudLoaded = [b \in Browsers |-> FALSE]
    /\ skipNextSave = [b \in Browsers |-> TRUE]
    /\ lastLocalEditAt = [b \in Browsers |-> 0]
    /\ lastCloudSnapshot = [b \in Browsers |-> EmptyString]
    /\ saveTimer = [b \in Browsers |-> NoTimer]
    /\ pollTimer = [b \in Browsers |-> NoTimer]
    /\ fetched = [b \in Browsers |-> NoFetch]
    /\ edits = [b \in Browsers |-> 0]
    /\ editedAt = [b \in Browsers |-> Never]
    /\ polled = [b \in Browsers |-> "never"]
    /\ saveFailed = [b \in Browsers |-> FALSE]
    /\ held = [b \in Browsers |-> {}]
    /\ log = [b \in Browsers |-> l]
    /\ response = NoResponse

InitSync == InitSyncWith(NoLog)

SpecSync == InitSync /\ [][NextSync]_vars

---------------------------------------------------------------------------
(* Store specification: the endpoint /api/state answering requests of any  *)
(* sender                                                                  *)

MaxRequests == 3

\* JSON values other than documents, in the shape of a document: null,
\* the numbers 0 and 7, the strings "" and "x", false, and the arrays []
\* and [1].
JsonNull == NoState
JsonNumber(n) == { <<"number", n>> }
JsonString(len) == { <<"string", len>> }
JsonFalse == { <<"boolean", 0>> }
JsonArray(len) == { <<"array", len>> }

\* The request bodies sent: text that is no JSON, the JSON texts of the
\* values above and of two documents.
RequestBodies ==
    { <<"text", {}>> }
    \cup { Snapshot(v) : v \in { JsonNull, JsonNumber(0), JsonNumber(7), JsonString(0),
                                 JsonString(1), JsonFalse, JsonArray(0), JsonArray(1),
                                 { <<"A", 1>> }, { <<"A", 1>>, <<"B", 1>> } } }

\* await req.json().catch(() => null)
ReqJson(text) == IF text[1] = "json" THEN text[2] ELSE JsonNull

\* !body is false
Truthy(v) == v \notin { JsonNull, JsonNumber(0), JsonString(0), JsonFalse }

\* typeof body
TypeOf(v) ==
    IF \E t \in v : t[1] \in {"number", "string", "boolean"}
      THEN (CHOOSE t \in v : t[1] \in {"number", "string", "boolean"})[1]
      ELSE "object"

\* The handler PUT on the stored state cur, for the request text and the
\* outcome dbOk of the upsert: the status it answers and the stored state.
PUT(cur, text, dbOk) ==
    IF ~ Truthy(ReqJson(text)) \/ TypeOf(ReqJson(text)) # "object"
      THEN [status |-> 400, store |-> cur]
    ELSE IF ~ dbOk THEN [status |-> 500, store |-> cur]
    ELSE [status |-> 200, store |-> Upsert(cur, ReqJson(text))]

\* The handler GET: the status and the state of its answer (data?.state ??
\* null, the stored state being null when there is no row).
GET(cur, dbOk) ==
    IF ~ dbOk THEN [status |-> 500, state |-> JsonNull]
    ELSE [status |-> 200, state |-> cur]

PutRequest ==
    /\ response.n < MaxRequests
    /\ \E text \in RequestBodies, dbOk \in BOOLEAN :
          /\ store' = PUT(store, text, dbOk).store
          /\ stored' = stored \cup (IF PUT(store, text, dbOk).status = 200
                                      THEN ReqJson(text) ELSE {})
          /\ response' = [n |-> response.n + 1, method |-> "PUT", body |-> text,
                           status |-> PUT(store, text, dbOk).status, state |-> {}]
    /\ UNCHANGED <<tz, engineVars, pageVars, now, local, cloudLoaded, skipNextSave,
                   lastLocalEditAt, lastCloudSnapshot, saveTimer, pollTimer, fetched,
                   edits, editedAt, polled, saveFailed, held, log>>

GetRequest ==
    /\ response.n < MaxRequests
    /\ \E dbOk \in BOOLEAN :
          response' = [n |-> response.n + 1, method |-> "GET", body |-> <<"", {}>>,
                       status |-> GET(store, dbOk).status,
                       state |-> GET(store, dbOk).state]
    /\ UNCHANGED <<tz, engineVars, pageVars, now, store, local, cloudLoaded, skipNextSave,
                   lastLocalEditAt, lastCloudSnapshot, saveTimer, pollTimer, fetched,
                   edits, editedAt, polled, saveFailed, stored, held, log>>

NextStore == PutRequest \/ GetRequest

SpecStore == InitSync /\ [][NextStore]_vars

---------------------------------------------------------------------------
(* Burst specification: the initial fetch may fail; one browser edits      *)
(* several times, the other only loads and polls                           *)

MaxBurst == 2

BurstEdit == LocalEditUpTo("A", MaxBurst)

\* The mount effect of browser b, its GET answered or failed.
LoadOrFail(b) == LoadFrom(b, LoadResponses)

NextBurst ==
    \/ \E b \in Browsers : LoadOrFail(b)
    \/ BurstEdit
    \/ \E b \in Browsers : Save(b)
    \/ \E b \in Browsers : PollFetch(b)
    \/ \E b \in Browsers : PollReturn(b)
    \/ Tick

\* The loads, edits, applies and PUTs of the browsers are recorded.
InitBurst == InitSyncWith(EmptyLog)

SpecBurst == InitBurst /\ [][NextBurst]_vars

---------------------------------------------------------------------------
(* Claims about the page (checked under Spec)                              *)

LedgerKeys(ledger) ==
    UNION { UNION { { <<d, c, t>> : t \in DOMAIN ledger[d][c] } : c \in DOMAIN ledger[d] }
            : d \in DOMAIN ledger }

HasEntry(ledger, key) == key \in LedgerKeys(ledger)
Checked(ledger, key) == CheckedIn(ledger, key[1], key[2], key[3])
NoneDone == \A key \in LedgerKeys(completion) : ~ Checked(completion, key)

\* The tasks the engine produces for the clients started on or before the
\* selected date D, on each of the days D-30 .. D-1 not before their start.
C9_Expected ==
    LET D == DayNumber(dateISO)
        started == { c \in SeqRange(clients) : DayNumber(c.startDate) <= D }
        TasksOn(c, n) ==
            SeqRange(generateTasksForClientOnDate(tz, c, CivilFromDays(n), taskRules).tasks)
    IN  UNION { UNION { { <<CivilFromDays(n), c.id, t.id>> : t \in TasksOn(c, n) }
                        : n \in { m \in (D - 30)..(D - 1) : m >= DayNumber(c.startDate) } }
                : c \in started }

\* The length of the list once the entry o is toggled in the ledger.
C9_LengthWithout(o) ==
    Len(OverdueList(toggleTaskOn(completion, o.dateISO, o.client.id, o.task.id)))

C9_Lists(od, expected) ==
    /\ NoneDone =>
          /\ KeysOf(od) = expected
          /\ Len(od) = Cardinality(expected)
    /\ completion = <<>> =>
          \A i \in 1..Len(od) : C9_LengthWithout(od[i]) = Len(od) - 1

C9_ListedExactly == search = "" => C9_Lists(overdue, C9_Expected)

C9_Toggled(od) ==
    (\E i \in 1..Len(od) :
        completion' = toggleTaskOn(completion, od[i].dateISO, od[i].client.id, od[i].task.id))
    => Len(OverdueList(completion')) = Len(od) - 1

C9_ToggleStep ==
    (search = "" /\ toggles' = toggles + 1 /\ NoneDone) => C9_Toggled(overdue)

\* C9: with an empty search and no entry ticked, the overdue list holds
\* exactly one entry per task the engine produces for each active client on
\* the days D-30 .. D-1 not before the client's start date; toggling one
\* listed entry leaves exactly one entry less.
C9_OverdueList == [] C9_ListedExactly /\ [][C9_ToggleStep]_vars

C9_Witness ==
    /\ search = ""
    /\ toggles = 1
    /\ Len(clients) = 2
    /\ Len(overdue) >= 1
    /\ Len(overdue) = Cardinality(C9_Expected) - 1
    /\ \E key \in LedgerKeys(completion) : Checked(completion, key) /\ isBeforeISO(key[1], dateISO)

ToggleTwice(ledger, key) ==
    toggleTaskOn(toggleTaskOn(ledger, key[1], key[2], key[3]), key[1], key[2], key[3])

\* The keys of the ledger and of the checkboxes of the day view.
C10_Keys == LedgerKeys(completion) \cup DayViewKeys

\* C10 as claimed: toggling a key twice returns the ledger to its original
\* value, whether or not the key had an entry.
C10_ToggleTwiceRestoresLedger ==
    \A key \in C10_Keys : ToggleTwice(completion, key) = completion

\* C10, amended: toggling a key twice returns isChecked of every key to its
\* original value; the ledger itself is back to its original value when the
\* key had an entry, and otherwise differs from it by an explicit entry
\* false for the key.
C10_ToggleTwiceRestoresChecked ==
    \A key \in C10_Keys :
        LET twice == ToggleTwice(completion, key)
        IN  /\ \A k \in LedgerKeys(twice) \cup LedgerKeys(completion) :
                  Checked(twice, k) <=> Checked(completion, k)
            /\ HasEntry(completion, key) => twice = completion
            /\ ~ HasEntry(completion, key) =>
                  /\ twice # completion
                  /\ LedgerKeys(twice) = LedgerKeys(completion) \cup {key}
                  /\ ~ Checked(twice, key)

\* Two toggles of one key have happened: the ledger holds an entry false.
C10_Witness ==
    /\ toggles = 2
    /\ \E key \in LedgerKeys(completion) : ~ Checked(completion, key)
    /\ completion # <<>>

InSeq(x, xs) == \E i \in 1..Len(xs) : xs[i] = x

\* C14: every client is in exactly one of activeClients (start date on or
\* before the selected date) and upcomingClients (start date after it); the
\* rows of the day view are built from exactly the active clients, so no row
\* has week 0 or upcoming = TRUE; a client whose start date is the selected
\* date is active, in week 1.
C14_ActiveOrUpcoming ==
    /\ Len(activeClients) + Len(upcomingClients) = Len(clients)
    /\ \A i \in 1..Len(clients) :
          /\ InSeq(clients[i], activeClients)
                <=> DayNumber(clients[i].startDate) <= DayNumber(dateISO)
          /\ InSeq(clients[i], upcomingClients)
                <=> DayNumber(clients[i].startDate) > DayNumber(dateISO)
    /\ Len(baseRows) = Len(activeClients)
    /\ \A i \in 1..Len(baseRows) :
          /\ baseRows[i].client = activeClients[i]
          /\ baseRows[i].day.week # 0
          /\ ~ baseRows[i].day.upcoming
          /\ baseRows[i].client.startDate = dateISO => baseRows[i].day.week = 1

\* Three clients, the date moved to the start date of the one who was
\* upcoming before: that client now has a row, in week 1.
C14_Witness ==
    /\ Len(clients) = 3
    /\ dateISO # Today
    /\ upcomingClients = <<>>
    /\ \E i \in 1..Len(baseRows) :
          /\ baseRows[i].client.startDate = dateISO
          /\ baseRows[i].day.week = 1

---------------------------------------------------------------------------
(* Claims about the overdue list and the form (checked under SpecOverdue)  *)

\* The ticked entries of a ledger that lie before the selected date.
TickedBefore(ledger) ==
    { key \in LedgerKeys(ledger) :
          /\ Len(key[1]) = 3
          /\ isBeforeISO(key[1], dateISO)
          /\ Checked(ledger, key) }

\* The entries of the two ledgers that differ, in presence or in value.
Changed(before, after) ==
    { key \in LedgerKeys(before) \cup LedgerKeys(after) :
          \/ HasEntry(before, key) # HasEntry(after, key)
          \/ Checked(before, key) # Checked(after, key) }

C23_Post ==
    /\ \A key \in OverdueKeys : Checked(completion', key)
    /\ Len(OverdueList(completion')) = 0
    /\ \A key \in LedgerKeys(completion) :
           Checked(completion, key) => Checked(completion', key)
    /\ Changed(completion, completion') \subseteq OverdueKeys
    /\ (Len(overdue) = 0 => completion' = completion)

\* C23: markAllOverdueDone sets the ledger entry of every listed overdue
\* (date, client, task) to true, after which the overdue list of the same
\* date, clients and rules is empty; it sets no entry to false, leaves the
\* entries that are not in the list as they were, and changes nothing when
\* the list is empty.
C23_MarkAllOverdueDone == [][markAllOverdueDone => C23_Post]_vars

\* The whole list was ticked at once, next to an entry ticked by hand.
C23_Witness ==
    /\ toggles = MaxClicks
    /\ Len(overdue) = 0
    /\ Cardinality(TickedBefore(completion)) >= 3
    /\ \E key \in LedgerKeys(completion) : key[1] = dateISO /\ Checked(completion, key)

\* The form the next submission carries.
NextForm == OverdueInputs[Cardinality(issued) + 1]

\* A text that is empty once the blanks around it are dropped.
Blank(text) == text \in {"", " ", "  "}

\* A start date that is not four, two and two digits.
Malformed(start) ==
    \/ start = NoDate
    \/ start[1] > 9999
    \/ start[2] > 99
    \/ start[3] > 99

C24_Appended(form) ==
    /\ Len(clients') = Len(clients) + 1
    /\ SubSeq(clients', 1, Len(clients)) = clients
    /\ clients'[Len(clients')].startDate = form[2]
    /\ clients'[Len(clients')].program = form[3]
    /\ clients'[Len(clients')].goal = FormGoal(form)

C24_Step ==
    issued' # issued =>
        /\ taskRules' = taskRules
        /\ completion' = completion
        /\ IF Blank(NextForm[1]) \/ Malformed(NextForm[2])
             THEN clients' = clients
             ELSE C24_Appended(NextForm)

\* C24: addClient with a name that is empty after trimming, or a start date
\* that is not of the form dddd-dd-dd, leaves the client list unchanged;
\* otherwise it appends exactly one client with the entered start date,
\* program and goal; it changes no existing client, rule or ledger entry.
C24_AddClient == [][C24_Step]_vars

\* All five forms were submitted, two of them turned down; the last client
\* carries the goal chosen in the form.
C24_Witness ==
    /\ Cardinality(issued) = Len(OverdueInputs)
    /\ Len(clients) = 3
    /\ clients[3].goal = "muscle_gain"
    /\ clients[3].startDate = addDaysISO(Today, 1)

\* The clients of the rows the page shows: started on or before the selected
\* date and matching the search text ("an" is found in "Ann" only; no client
\* of the model has notes).
Shown(c) ==
    /\ ~ isAfterISO(c.startDate, dateISO)
    /\ search = "" \/ (search = "an" /\ c.name = "Ann")

ShownIds == { c.id : c \in { x \in SeqRange(clients) : Shown(x) } }

\* The checkboxes of the day view of the shown clients.
C29_Expected ==
    UNION { { <<dateISO, c.id, t.id>> :
                 t \in SeqRange(generateTasksForClientOnDate(tz, c, dateISO, taskRules).tasks) }
            : c \in { x \in SeqRange(clients) : Shown(x) } }

C29_Covered(p, od, alerts, expected) ==
    /\ p.total = Cardinality(expected)
    /\ p.done = Cardinality({ key \in expected : Checked(completion, key) })
    /\ 0 <= p.done
    /\ p.done <= p.total
    /\ \A i \in 1..Len(od) : od[i].client.id \in ShownIds
    /\ \A i \in 1..Len(alerts) : alerts[i].client.id \in ShownIds

C29_OnlyShown == C29_Covered(progress, overdue, programAlerts, C29_Expected)

C29_Step ==
    markAllOverdueDone =>
        \A key \in Changed(completion, completion') : key[2] \in ShownIds

\* C29: progress, programAlerts, overdue and markAllOverdueDone cover only
\* the active clients matching the search text: a client filtered out adds
\* nothing to progress.total, progress.done, the alerts or the overdue list,
\* markAllOverdueDone leaves that client's ledger entries unchanged, and
\* 0 <= progress.done <= progress.total always.
C29_SearchedClientsOnly == [] C29_OnlyShown /\ [][C29_Step]_vars

\* The list was ticked while the search hid a started client who has a
\* ticked entry, tasks on the selected date, tasks still overdue and a
\* program alert.
C29_Witness ==
    /\ search = "an"
    /\ Len(overdue) = 0
    /\ Cardinality(TickedBefore(completion)) >= 3
    /\ \E i \in 1..Len(clients) :
          /\ ~ Shown(clients[i])
          /\ Len(Row(clients[i]).day.tasks) > 0
          /\ ~ isAfterISO(clients[i].startDate, dateISO)
          /\ \E key \in LedgerKeys(completion) : key[2] = clients[i].id
          /\ Len(OverdueOfClient(completion, clients[i])) > 0
          /\ Len(AlertsOfRow(Row(clients[i]))) > 0

---------------------------------------------------------------------------
(* Claims about the day view (checked under SpecView)                      *)

\* The number of tasks of a row not ticked for the selected date.
Unticked(row) ==
    Cardinality({ k \in 1..Len(row.day.tasks) :
                    ~ Checked(completion, <<dateISO, row.client.id, row.day.tasks[k].id>>) })

\* The primary key of the sort mode.
PrimaryKey(row) ==
    CASE sortBy = "name" -> <<"name", row.client.name>>
      [] sortBy = "start" -> <<"start", row.client.startDate>>
      [] sortBy = "incomplete" -> <<"incomplete", Unticked(row)>>
      [] OTHER -> <<"week", row.day.week>>

\* C15: in every sort mode (name, start, week ascending, incomplete
\* descending) the rows that tie on the primary key of the mode appear in
\* ascending order of client name in sortedRows.
C15_TiesInNameOrder ==
    \A i, j \in 1..Len(sortedRows) :
        (i < j /\ PrimaryKey(sortedRows[i]) = PrimaryKey(sortedRows[j]))
            => NameRank(sortedRows[i].client.name) <= NameRank(sortedRows[j].client.name)

\* Sorted by start date, Bob added before Ann with the same start date:
\* Ann's row comes first.
C15_Witness ==
    /\ sortBy = "start"
    /\ Len(sortedRows) = 2
    /\ clients[1].name = "Bob"
    /\ clients[2].name = "Ann"
    /\ clients[1].startDate = clients[2].startDate
    /\ sortedRows[1].client = clients[2]
    /\ sortedRows[2].client = clients[1]

\* The ledger keys that are calendar dates, with the value each holds.
IsDated(key) == Len(key[1]) = 3
DatedEntries(ledger) ==
    { <<key, Checked(ledger, key)>> : key \in { k \in LedgerKeys(ledger) : IsDated(k) } }

\* The items of the pre-start checklists: <<clientId, upcomingTaskId>>.
ChecklistCells ==
    { <<clients[i].id, UPCOMING_TASKS[k].id>> :
        i \in 1..Len(clients), k \in 1..Len(UPCOMING_TASKS) }

C17_ToggleStep ==
    \A cell \in ChecklistCells :
        ( /\ completion' # completion
          /\ completion' = toggleTaskOn(completion, upcomingKey(cell[1]), cell[1], cell[2]) )
        => /\ isUpcomingDone(cell[1], cell[2])' = ~ isUpcomingDone(cell[1], cell[2])
           /\ DatedEntries(completion') = DatedEntries(completion)
           /\ \A other \in ChecklistCells \ {cell} :
                 isUpcomingDone(other[1], other[2])' = isUpcomingDone(other[1], other[2])

C17_DateStep ==
    dateISO' # dateISO =>
        \A cell \in ChecklistCells :
            isUpcomingDone(cell[1], cell[2])' = isUpcomingDone(cell[1], cell[2])

\* C17: the pre-start checklist is kept under the bucket upcoming:<clientId>,
\* never under a calendar date: toggleUpcomingTask(c, t) flips
\* isUpcomingDone(c, t), which reads the same for every selected date, and
\* changes no dated ledger entry, no other checklist item of c and no
\* checklist item of any other client.
C17_ChecklistBucket == [][C17_ToggleStep /\ C17_DateStep]_vars

\* Two upcoming clients, a day-view task ticked and a checklist item of one
\* of the upcoming clients ticked.
C17_Witness ==
    /\ Len(upcomingClients) = 2
    /\ \E key \in LedgerKeys(completion) : IsDated(key) /\ Checked(completion, key)
    /\ \E cell \in ChecklistCells : isUpcomingDone(cell[1], cell[2])

RuleIdsOf(xs) == { xs[i].id : i \in 1..Len(xs) }
RuleIds(rs) == RuleIdsOf(rs.onboarding) \cup RuleIdsOf(rs.weekly) \cup RuleIdsOf(rs.week)

\* The rules deleted so far, as task ids.
DeletedTaskIds ==
    { <<"rule", id>> : id \in RuleIds(DEFAULT_TASK_RULES) \ RuleIds(normalizeRules(taskRules)) }

\* The ledger without its entries under the task ids gone.
Strip(ledger, gone) ==
    [ d \in DOMAIN ledger |->
        [ c \in DOMAIN ledger[d] |->
            [ t \in (DOMAIN ledger[d][c]) \ gone |-> ledger[d][c][t] ] ] ]

C19_NothingFrom(gone, od) ==
    /\ \A i \in 1..Len(sortedRows) :
          \A k \in 1..Len(sortedRows[i].day.tasks) : sortedRows[i].day.tasks[k].id \notin gone
    /\ \A i \in 1..Len(od) : od[i].task.id \notin gone
    /\ ProgressOf(Strip(completion, gone), sortedRows) = progress
    /\ OverdueList(Strip(completion, gone)) = od

C19_NoContribution ==
    DeletedTaskIds # {} => C19_NothingFrom(DeletedTaskIds, overdue)

C19_DeleteStep ==
    taskRules' # taskRules =>
        /\ completion' = completion
        /\ clients' = clients
        /\ Cardinality({ cat \in Categories : taskRules'[cat] # taskRules[cat] }) = 1
        /\ \E id \in RuleIds(taskRules) : RuleIds(taskRules') = RuleIds(taskRules) \ {id}

\* C19: after deleteRule removes a rule, the ledger entries under that
\* rule's task id contribute nothing to progress.done, progress.total or
\* overdue, for any date; deleteRule leaves the ledger, the clients and the
\* other two rule categories unchanged.
C19_DeletedRule == [] C19_NoContribution /\ [][C19_DeleteStep]_vars

\* The mid-week check-in ticked for a client on the Wednesday before, the
\* rule w1 deleted afterwards, today selected with tasks overdue.
C19_Witness ==
    /\ DeletedTaskIds = { <<"rule", "w1">> }
    /\ dateISO = Today
    /\ \E key \in LedgerKeys(completion) :
          /\ key[3] = <<"rule", "w1">>
          /\ key[1] = addDaysISO(Today, -7)
          /\ Checked(completion, key)
    /\ Len(overdue) > 0
    /\ progress.total = 0

---------------------------------------------------------------------------
(* Claims about the cloud sync (checked under SpecSync)                    *)

\* The step in which poll of browser b continues after its await.
PollEnds(b) == fetched[b] # NoFetch /\ fetched'[b] = NoFetch

C12_GraceStep ==
    \A b \in Browsers :
        ( /\ PollEnds(b)
          /\ editedAt[b] # Never
          /\ now - editedAt[b] < LOCAL_GRACE_MS )
        => /\ local'[b] = local[b]
           /\ lastCloudSnapshot'[b] = lastCloudSnapshot[b]

\* C12: a poll never replaces the local state with a remote snapshot when
\* less than the grace period (1500 ms) has passed since the last local
\* edit; the local state and the snapshot marker are then left unchanged.
C12_NoApplyWithinGrace == [][C12_GraceStep]_vars

\* A poll has found the store different from the marker less than 1500 ms
\* after an edit of its browser, and has left the edit in place.
C12_Witness ==
    \E b \in Browsers :
        /\ polled[b] = "grace"
        /\ fetched[b] = NoFetch
        /\ pollTimer[b] = now + POLL_MS
        /\ now - editedAt[b] < LOCAL_GRACE_MS
        /\ <<b, 1>> \in local[b]
        /\ store # NoState
        /\ store # local[b]

C13_FailedStep ==
    \A b \in Browsers :
        (saveFailed[b] /\ saveFailed'[b]) => local[b] \subseteq local'[b]

\* C13: when a save fails, the local state keeps the unsaved edits until a
\* later save succeeds: no poll in between replaces the local state with
\* the older remote snapshot.
C13_UnsavedEditsKept == [][C13_FailedStep]_vars

C18_PutStep ==
    store' # store =>
        \E b \in Browsers :
            /\ saveTimer[b] = now
            /\ store' = local[b]
            /\ ~ saveFailed'[b]

\* C18: each PUT replaces the whole state document and its browser gets no
\* error, so that with two browsers a lost update is reachable (the state
\* of C18_Witness).
C18_PutReplacesDocument == [][C18_PutStep]_vars

\* The edit of browser A was saved, and a later save of browser B, whose
\* local state never held that edit, removed it from the store; no save
\* failed.
C18_Witness ==
    /\ <<"A", 1>> \in stored
    /\ <<"A", 1>> \notin store
    /\ <<"A", 1>> \notin held["B"]
    /\ <<"B", 1>> \in store
    /\ \A b \in Browsers : ~ saveFailed[b] /\ saveTimer[b] = NoTimer

C20_Step ==
    /\ \A b \in Browsers :
          /\ (saveTimer'[b] # NoTimer /\ saveTimer'[b] # saveTimer[b])
                => edits'[b] = edits[b] + 1
          /\ (local'[b] # local[b] /\ edits'[b] = edits[b])
                => saveTimer'[b] = NoTimer
    /\ store' # store =>
          \E b \in Browsers : saveTimer[b] = now /\ edits[b] > 0

\* C20: applying state that came from the cloud, at the initial load or in
\* a poll, never by itself causes a save: a save is scheduled only by a
\* local edit of the browser, a PUT is issued only by such a save, and after
\* a remote apply no save is pending.
C20_NoSaveAfterApply == [][C20_Step]_vars

\* Browser B has taken the edit of browser A from the store in a poll and
\* has no save pending; the store still is what A saved.
C20_Witness ==
    /\ polled["B"] = "applied"
    /\ <<"A", 1>> \in local["B"]
    /\ edits["B"] = 0
    /\ saveTimer["B"] = NoTimer
    /\ store = local["A"]
    /\ now > LOCAL_GRACE_MS + POLL_MS

---------------------------------------------------------------------------
(* Claims about saves and bursts of edits (checked under SpecBurst)        *)

\* The bodies of the PUTs browser b has issued.
PutBodies(b) == { log[b].puts[i][2] : i \in 1..Len(log[b].puts) }

\* C21: after a local edit, if no further state change follows, a PUT
\* carrying a state that contains the edit is eventually issued, also for
\* an edit made while the initial load is in flight.  A PUT is issued only
\* when the debounce timer fires, so: once the load has ended, an edit that
\* the state holds has been carried by a PUT or has a save pending.
C21_EditsAreSaved ==
    \A b \in Browsers :
        \A k \in 1..edits[b] :
            (cloudLoaded[b] /\ <<b, k>> \in local[b])
            => \/ saveTimer[b] # NoTimer
               \/ \E body \in PutBodies(b) : <<b, k>> \in body

\* C26: a save never replaces the stored document with a state built
\* without loading it: when the initial fetch failed or returned no state,
\* the browser issues no PUT until a poll has applied a remote snapshot.
C26_NoSaveBeforeLoaded ==
    \A b \in Browsers :
        (log[b].load = "null" /\ ~ log[b].applied) => Len(log[b].puts) = 0

\* The edits of browser b so far are a burst: each follows the one before
\* by less than the debounce.
IsBurst(b) ==
    /\ Len(log[b].changes) > 1
    /\ \A i \in 2..Len(log[b].changes) :
           log[b].changes[i][1] - log[b].changes[i - 1][1] < SAVE_DEBOUNCE_MS

LastChange(b) == log[b].changes[Len(log[b].changes)]

\* C22: a burst of local changes, each less than 400 ms after the one
\* before, produces exactly one PUT, issued after the last change and
\* carrying the state of the last change; no PUT carries an intermediate
\* state of the burst.  (The debounce over, the one PUT has been issued.)
C22_OnePutPerBurst ==
    \A b \in Browsers :
        IsBurst(b) =>
            /\ \A i \in 1..Len(log[b].puts) :
                  /\ log[b].puts[i][1] >= LastChange(b)[1]
                  /\ log[b].puts[i][2] = LastChange(b)[2]
            /\ Len(log[b].puts) <= 1
            /\ now > LastChange(b)[1] + SAVE_DEBOUNCE_MS => Len(log[b].puts) = 1

---------------------------------------------------------------------------
(* Claims about the store (checked under SpecStore)                        *)

\* The request text is JSON and its value is an object: a document, and
\* neither null, a number, a string, a boolean nor an array.
IsJsonObject(text) ==
    /\ text[1] = "json"
    /\ \A t \in text[2] : t[1] \notin {"null", "number", "string", "boolean", "array"}

Answered(method) == response'.n = response.n + 1 /\ response'.method = method

C30_Step ==
    /\ Answered("GET") =>
          /\ store' = store
          /\ response'.status = 200 => response'.state = store
    /\ Answered("PUT") =>
          /\ ~ IsJsonObject(response'.body) => (response'.status = 400 /\ store' = store)
          /\ response'.status = 200 => store' = response'.body[2]
          /\ response'.status # 200 => store' = store
          /\ (response.status = 200 /\ response.method = "PUT"
                /\ response'.status = 200 /\ response'.body = response.body)
                => store' = store

\* C30: the store is a single last-write register: GET returns the body of
\* the most recent PUT that succeeded, or null when there is no row; a PUT
\* whose body is no valid JSON or no object is answered 400 and leaves the
\* stored state unchanged; repeating the same successful PUT leaves the
\* store as after the first.
C30_LastWriteRegister == [][C30_Step]_vars

---------------------------------------------------------------------------
(* Further claims about the engine (checked under SpecEngine)              *)

\* The number of calendar days from the start date to the queried date.
DaysFromStart == DayNumber(qDate) - DayNumber(client.startDate)

\* C25: daysBetween counts whole calendar days consistently with
\* addDaysISO: for a date d and an integer n, negative included,
\* daysBetween(parse(d), parse(addDaysISO(d, n))) = n, also across a change
\* of daylight saving.
C25_DaysBetweenCountsDays ==
    Called =>
        /\ qDate = addDaysISO(client.startDate, DaysFromStart)
        /\ daysBetween(tz, parseISODate(client.startDate), parseISODate(qDate))
             = DaysFromStart

\* C27: for a 12-week client program:second-last-week is emitted on exactly
\* the dates start+70 .. start+76 and program:last-week on exactly the dates
\* start+77 .. start+83; from start+84 on neither is emitted.
C27_TwelveWeekReminderDates ==
    (Called /\ client.program = "12w") =>
        /\ HasTask(result, <<"program", "second-last-week">>, "program")
              <=> DaysFromStart \in 70..76
        /\ HasTask(result, <<"program", "last-week">>, "program")
              <=> DaysFromStart \in 77..83

\* C28: on a date after the end of the program (client week > total weeks)
\* every weekly rule still emits its task on its day-of-week (w1 by its
\* cadence), the tasks of the date are listed as overdue when not ticked,
\* and no program reminder is emitted.
C28_TasksAfterProgramEnd ==
    (Called /\ ~ result.upcoming /\ result.week > TotalWeeks) =>
        /\ \A r \in SeqRange(normalizeRules(rules).weekly) :
              ( /\ r.day = getDay(parseISODate(qDate))
                /\ r.id = "w1" => (result.week <= 4 \/ result.week % 2 = 0) )
              => /\ HasTask(result, <<"rule", r.id>>, "weekly")
                 /\ \E o \in SeqRange(OverdueOfDay(<<>>, client, qDate, result)) :
                       /\ o.task.id = <<"rule", r.id>>
                       /\ o.dateISO = qDate
        /\ Len(OverdueOfDay(<<>>, client, qDate, result)) = Len(result.tasks)
        /\ ~ HasKind(result, "program")

\* A Friday seven weeks after the end of a 12-week program: the weekly
\* check-in message is still generated.
C28_Witness ==
    /\ Called
    /\ client.program = "12w"
    /\ result.week = TotalWeeks + 7
    /\ rules = DEFAULT_TASK_RULES
    /\ HasTask(result, <<"rule", "w2">>, "weekly")


===========================================================================
